---- MODULE Spec2Model ----
(***************************************************************************)
(* The message bridge of OpenManus-VSCode as a state machine.              *)
(*                                                                         *)
(*   MCPBridge        (src/src/mcp/MCPBridge.ts)  the WebSocket bridge     *)
(*   OpenManusProcess (src/unnamed/part_000)      the child-process bridge *)
(*                                                                         *)
(* Both classes run on the single-threaded event loop of the extension     *)
(* host: a public method, an event handler or a timer callback runs to     *)
(* completion (with the promise continuations it makes ready) before the   *)
(* next one starts, so each of them is one action.  The two classes share  *)
(* no state; `component` says which of them a behaviour is about.  The      *)
(* framer of OpenManusProcess (processOutput, which cuts the child's        *)
(* output into messages) is a behaviour of its own, "framer": the other     *)
(* behaviours of OpenManusProcess take its messages as they come out of it. *)
(*                                                                         *)
(* Message ids are `Date.now()` joined with a random token.  The           *)
(* behaviours above are those in which no two ids drawn are equal: there   *)
(* a request is named by the id of its message.  What happens when the     *)
(* clock and the generator repeat themselves is the behaviour "ids".  The  *)
(* tool list as an array of objects shared with the caller of getTools()   *)
(* is the behaviour "catalog".                                             *)
(***************************************************************************)
EXTENDS Integers, Sequences, FiniteSets, Bags, TLC

\* ------------------------------------------------------------- bounds
\* listTools/executeTool calls per behaviour.
MaxReq == 2
\* WebSocket objects that can still emit an event, at any one time.
MaxSockets == 2
\* Length of messageQueue.
MaxQueue == 2
\* reconnectAttempts, in the behaviours of Spec.
MaxRetries == 1
\* reconnectAttempts, in the behaviours of BackoffSpec.
MaxAttempts == 7
\* Child processes that can still emit an event, at any one time.
MaxChildren == 2
\* Readiness listeners registered at any one time.
MaxListeners == 2

\* Messages the agent writes, in the behaviours of FramerSpec.
MaxWritten == 2

\* Values generateMessageId can return, in the behaviours of IdSpec.
MaxIds == 2
\* executeTool calls, in the behaviours of IdSpec.
MaxIdCalls == 3
\* Tool objects ever created, in the behaviours of CatalogSpec.
MaxObjects == 4
\* Length of a tool list the server sends, in the behaviours of CatalogSpec.
MaxTools == 2

\* ------------------------------------------------- program constants
BaseDelayMs == 1000
MaxDelayMs == 30000

Calls == 1..MaxReq
Ids == 1..MaxIds
IdCalls == 1..MaxIdCalls
ToolNames == {"read_file", "write_file"}
NoId == 0
NoMsg == NoId - 1
NoTools == "absent"
EmptyTools == "[]"
Catalogs == {"catalogA"}

VARIABLES
  component,          \* "bridge", "single" (the bridge, its caller making one request),
                      \* "backoff" (the bridge, its caller making none), "invalid" (the
                      \* bridge made with a URL that is not a WebSocket URL), "process",
                      \* "framer", "restart" (the framer, over children started one after
                      \* the other), "ids" or "catalog"
  \* ---- MCPBridge fields
  ws,                 \* this.ws: the WebSocket object held (NoSocket is null)
  connected,          \* this.connected
  messageQueue,       \* this.messageQueue
  messageHandlers,    \* this.messageHandlers: the ids that have a handler
  tools,              \* this.tools
  reconnectAttempts,  \* this.reconnectAttempts
  reconnectTimer,     \* this.reconnectTimer: 0 is null, else the delay it was set with
  pingInterval,       \* this.pingInterval: TRUE when the interval is set
  disposed,           \* eventEmitter.dispose() has run
  \* ---- environment of MCPBridge
  orphans,            \* the WebSocket objects the bridge created, dropped and that still emit events
  reconnectPending,   \* the timeout behind reconnectTimer has neither fired nor been cleared
  call,               \* each listTools/executeTool call: where it stands
  op,                 \* each call's method
  timer,              \* each request's timeout is armed
  outcome,            \* each request's resolve/reject calls, in order
  \* ---- what the last step did
  sent,               \* the messages it handed to an open socket, in order
  dropped,            \* the messages it handed to a socket that was not open, in order
  received,           \* the id of the message it took from a socket (NoId: the message has none; NoMsg: it took none)
  fired,              \* how many messages it delivered to the onMessage subscribers
  \* ---- OpenManusProcess fields (options.useMCP is true)
  process,            \* this.process: the child process held (NoChild is null)
  isReady,            \* this.isReady
  messageCallbacks,   \* this.messageCallbacks: the ids that have a callback
  onMessageListeners, \* this.onMessageListeners: the readiness listeners of start(), in order
  \* ---- environment of OpenManusProcess
  children,           \* the child processes no longer held that still emit events
  pcall,              \* each sendPrompt/executeTool/getAvailableTools call: where it stands
  pop,                \* each call's method
  ptimer,             \* each request's timeout is armed
  poutcome,           \* each call's resolve calls, in order
  \* ---- the framer of OpenManusProcess
  messageBuffer,      \* this.messageBuffer
  handled,            \* the messages processOutput handed to handleMessage, in order
  written,            \* the messages the agent writes, in order
  stream,             \* their text, as the agent writes it to its standard output
  unread,             \* the part of it no data event has delivered yet
  \* ---- MCPBridge, ids as generateMessageId returns them
  idOf,               \* each executeTool call: the id of its message (NoId: not called)
  handlerOf,          \* this.messageHandlers: for each id, the call whose handler is set (0: none)
  idTimer,            \* each call's timeout is armed
  idSettled,          \* each call's promise is settled
  \* ---- MCPBridge, the tool list as objects
  heap,               \* the tool objects created so far: the name each one holds now
  catalog,            \* this.tools: the objects in the array
  returned            \* the array the last getTools() returned, as its caller has it now

bridgeVars == <<ws, connected, messageQueue, messageHandlers, tools, reconnectAttempts,
                reconnectTimer, pingInterval, disposed, orphans, reconnectPending, call, op,
                timer, outcome, sent, dropped, received, fired>>

processVars == <<process, isReady, messageCallbacks, onMessageListeners, children,
                 pcall, pop, ptimer, poutcome>>

framerVars == <<messageBuffer, handled, written, stream, unread>>

idVars == <<idOf, handlerOf, idTimer, idSettled>>

catalogVars == <<heap, catalog, returned>>

sideVars == <<idVars, catalogVars>>

vars == <<component, bridgeVars, processVars, framerVars, sideVars>>

\* ---------------------------------------------------------- messages
ConnectMsg == [type |-> "connect", id |-> NoId, tools |-> NoTools]
PingMsg == [type |-> "ping", id |-> NoId, tools |-> NoTools]
UserMsg == [type |-> "execute_tool", id |-> NoId, tools |-> NoTools]

RequestMsg(r, o) == [type |-> o, id |-> r, tools |-> NoTools]

\* What the server may send: any type, with any id or none.  (A list_tools
\* message without tools is to the bridge what a pong is: a message of a type
\* no handler looks for, with no tools in it.)
Inbound ==
  [type : {"tool_result", "error", "pong"}, id : {NoId} \cup Calls, tools : {NoTools}]
  \cup [type : {"list_tools"}, id : {NoId} \cup Calls, tools : Catalogs]

\* ---------------------------------------------------------- sockets
\* A WebSocket object: its readyState and the call that awaits the promise
\* of the connect() that created it (0: none).  "closing" is a terminated
\* socket whose events (error if it never opened, then close) are to come;
\* "failing" is a socket that was open and has emitted error: its close
\* event is to come.
Socket(st, waiter) == [st |-> st, waiter |-> waiter]
NoSocket == Socket("null", 0)
ClosedSocket == Socket("closed", 0)
Emitting == {"connecting", "open", "failing", "closing"}

\* A child process: "running", "killed" (stop() killed it: its close event
\* is to come) or "failed" (it emitted error: its close event is to come).
Child(st) == [st |-> st]
NoChild == Child("null")

\* ------------------------------------------------- the bridge's state
\* The fields a method of MCPBridge may change, as one record, so that a
\* method that calls another is the composition of the two.
Cur ==
  [ws |-> ws, connected |-> connected, messageQueue |-> messageQueue,
   messageHandlers |-> messageHandlers, tools |-> tools,
   reconnectAttempts |-> reconnectAttempts, reconnectTimer |-> reconnectTimer,
   pingInterval |-> pingInterval, disposed |-> disposed, orphans |-> orphans,
   reconnectPending |-> reconnectPending, call |-> call, op |-> op,
   timer |-> timer, outcome |-> outcome,
   sent |-> <<>>, dropped |-> <<>>, received |-> NoMsg, fired |-> 0, overflow |-> FALSE,
   throws |-> component = "invalid"]

Becomes(S) ==
  /\ ~S.overflow
  /\ ws' = S.ws
  /\ connected' = S.connected
  /\ messageQueue' = S.messageQueue
  /\ messageHandlers' = S.messageHandlers
  /\ tools' = S.tools
  /\ reconnectAttempts' = S.reconnectAttempts
  /\ reconnectTimer' = S.reconnectTimer
  /\ pingInterval' = S.pingInterval
  /\ disposed' = S.disposed
  /\ orphans' = S.orphans
  /\ reconnectPending' = S.reconnectPending
  /\ call' = S.call
  /\ op' = S.op
  /\ timer' = S.timer
  /\ outcome' = S.outcome
  /\ sent' = S.sent
  /\ dropped' = S.dropped
  /\ received' = S.received
  /\ fired' = S.fired

\* The sockets that can still emit an event: the one held, and the orphans.
EmittingCount(S) == BagCardinality(S.orphans) + (IF S.ws.st \in Emitting THEN 1 ELSE 0)

Targets(S) ==
  {[held |-> TRUE, s |-> S.ws] : x \in IF S.ws.st \in Emitting THEN {1} ELSE {}}
  \cup {[held |-> FALSE, s |-> o] : o \in BagToSet(S.orphans)}

\* Socket t becomes `new` (ClosedSocket: it emits nothing more).
setSocket(S, t, new) ==
  IF t.held THEN [S EXCEPT !.ws = new]
  ELSE [S EXCEPT !.orphans = IF new.st \in Emitting
                             THEN (@ (-) SetToBag({t.s})) (+) SetToBag({new})
                             ELSE @ (-) SetToBag({t.s})]

\* this.ws = <another object or null>: the object held so far lives on.
release(S) ==
  IF S.ws.st \in Emitting THEN [S EXCEPT !.orphans = @ (+) SetToBag({S.ws})] ELSE S

\* ------------------------------------------------- MCPBridge methods
\* connect(): nothing when connected, else a new WebSocket replaces this.ws;
\* `waiter` is the call that awaits the promise returned.  `new WebSocket(url)`
\* throws on a URL that is not a WebSocket URL: the catch block resolves the
\* promise with false and this.ws stays as it was.
\* connect() without the `if (this.connected) return true`.
connectAlways(S, waiter) ==
  IF EmittingCount(S) >= MaxSockets THEN [S EXCEPT !.overflow = TRUE]
  ELSE [release(S) EXCEPT !.ws = Socket("connecting", waiter)]

connectFor(S, waiter) ==
  IF S.connected \/ S.throws THEN S
  ELSE IF EmittingCount(S) >= MaxSockets THEN [S EXCEPT !.overflow = TRUE]
  ELSE [release(S) EXCEPT !.ws = Socket("connecting", waiter)]

connect(S) == connectFor(S, 0)

\* ws.send(json): the ws library throws on a socket that is still connecting
\* (caught and logged by sendMessage) and discards on one that is closing or
\* closed; only an open socket transmits.
wsSend(S, m) ==
  IF S.ws.st = "open" THEN [S EXCEPT !.sent = Append(@, m)]
  ELSE [S EXCEPT !.dropped = Append(@, m)]

enqueue(S, m) ==
  IF Len(S.messageQueue) >= MaxQueue THEN [S EXCEPT !.overflow = TRUE]
  ELSE [S EXCEPT !.messageQueue = Append(@, m)]

sendMessage(S, m) ==
  IF ~S.connected \/ S.ws.st = "null"
  THEN LET Q == enqueue(S, m)
       IN IF ~Q.connected THEN connect(Q) ELSE Q
  ELSE wsSend(S, m)

RECURSIVE sendAll(_, _)
sendAll(S, q) ==
  IF q = <<>> THEN S ELSE sendAll(sendMessage(S, Head(q)), Tail(q))

processMessageQueue(S) ==
  IF ~S.connected \/ Len(S.messageQueue) = 0 THEN S
  ELSE sendAll([S EXCEPT !.messageQueue = <<>>], S.messageQueue)

stopPingInterval(S) == [S EXCEPT !.pingInterval = FALSE]

startPingInterval(S) == [stopPingInterval(S) EXCEPT !.pingInterval = TRUE]

Min(a, b) == IF a <= b THEN a ELSE b

\* The delay without the 30 s ceiling.
uncappedDelay(attempt) == (2 ^ attempt) * BaseDelayMs

ReconnectDelay(attempt) == Min((2 ^ attempt) * BaseDelayMs, MaxDelayMs)

scheduleReconnect(S) ==
  [S EXCEPT !.reconnectTimer = ReconnectDelay(S.reconnectAttempts),
            !.reconnectPending = TRUE,
            !.reconnectAttempts = @ + 1]

\* ws.terminate(), and this.ws = null
terminate(S) ==
  LET S1 == IF S.ws.st \in {"connecting", "open", "failing"}
            THEN [S EXCEPT !.ws.st = "closing"] ELSE S
  IN [release(S1) EXCEPT !.ws = NoSocket]

disconnect(S) ==
  LET S1 == stopPingInterval(S)
      S2 == IF S1.reconnectTimer # 0
            THEN [S1 EXCEPT !.reconnectTimer = 0, !.reconnectPending = FALSE]
            ELSE S1
      S3 == IF S2.ws.st # "null" THEN terminate(S2) ELSE S2
  IN [S3 EXCEPT !.connected = FALSE]

dispose(S) == [disconnect(S) EXCEPT !.disposed = TRUE]

settle(S, r, kind, val) ==
  [S EXCEPT !.outcome[r] = Append(@, [kind |-> kind, val |-> val]),
            !.call[r] = "settled"]

\* The handler listTools registers.
listToolsHandler(S, r, m) ==
  LET got == IF m.tools = NoTools THEN EmptyTools ELSE m.tools
  IN settle([S EXCEPT !.tools = got], r, "resolve", "tools")

\* The handler of executeTool resolving on every reply that is not an error.
executeToolHandlerLenient(S, r, m) ==
  IF m.type = "error" THEN settle(S, r, "reject", "error")
  ELSE settle(S, r, "resolve", "result")

\* The handler executeTool registers.
executeToolHandler(S, r, m) ==
  IF m.type = "error" THEN settle(S, r, "reject", "error")
  ELSE IF m.type = "tool_result" THEN settle(S, r, "resolve", "result")
  ELSE settle(S, r, "reject", "unexpected")

handler(S, r, m) ==
  IF S.op[r] = "list_tools" THEN listToolsHandler(S, r, m) ELSE executeToolHandler(S, r, m)

\* eventEmitter.fire(message): a disposed emitter has no subscriber left.
fire(S, m) == IF S.disposed THEN S ELSE [S EXCEPT !.fired = @ + 1]

\* handleMessage that leaves the handler registered after calling it.
handleMessageKeepingHandler(S, m) ==
  LET S1 == IF m.type = "list_tools" /\ m.tools # NoTools
            THEN [S EXCEPT !.tools = m.tools] ELSE S
      S2 == fire(S1, m)
  IN IF m.id # NoId /\ m.id \in S2.messageHandlers
     THEN handler(S2, m.id, m)
     ELSE S2

\* handleMessage that hands a message whose id has no handler to the handler
\* of some pending request.
handleMessageAnyId(S, m) ==
  LET S1 == IF m.type = "list_tools" /\ m.tools # NoTools
            THEN [S EXCEPT !.tools = m.tools] ELSE S
      S2 == fire(S1, m)
  IN IF m.id # NoId /\ m.id \in S2.messageHandlers
     THEN [handler(S2, m.id, m) EXCEPT !.messageHandlers = @ \ {m.id}]
     ELSE IF S2.messageHandlers # {}
     THEN LET r == CHOOSE q \in S2.messageHandlers : TRUE
          IN [handler(S2, r, m) EXCEPT !.messageHandlers = @ \ {r}]
     ELSE S2

handleMessage(S, m) ==
  LET S1 == IF m.type = "list_tools" /\ m.tools # NoTools
            THEN [S EXCEPT !.tools = m.tools] ELSE S
      S2 == fire(S1, m)
  IN IF m.id # NoId /\ m.id \in S2.messageHandlers
     THEN [handler(S2, m.id, m) EXCEPT !.messageHandlers = @ \ {m.id}]
     ELSE S2

\* The promise executor of listTools/executeTool: register, send, arm the timeout.
issue(S, r) ==
  LET S1 == [S EXCEPT !.messageHandlers = @ \cup {r}, !.call[r] = "pending"]
      S2 == sendMessage(S1, RequestMsg(r, S.op[r]))
  IN [S2 EXCEPT !.timer[r] = TRUE]

\* The timeout callback that removes every handler, not only its own.
requestTimeoutClearingAll(S, r) ==
  LET S1 == [S EXCEPT !.timer[r] = FALSE]
  IN IF r \in S1.messageHandlers
     THEN LET S2 == [S1 EXCEPT !.messageHandlers = {}]
          IN IF S.op[r] = "list_tools"
             THEN settle(S2, r, "resolve", EmptyTools)
             ELSE settle(S2, r, "reject", "timeout")
     ELSE S1

\* The timeout callback of listTools/executeTool.
requestTimeout(S, r) ==
  LET S1 == [S EXCEPT !.timer[r] = FALSE]
  IN IF r \in S1.messageHandlers
     THEN LET S2 == [S1 EXCEPT !.messageHandlers = @ \ {r}]
          IN IF S.op[r] = "list_tools"
             THEN settle(S2, r, "resolve", EmptyTools)
             ELSE settle(S2, r, "reject", "timeout")
     ELSE S1

\* The promise connect() returned to call r is resolved: the call goes on.
resume(S, r) == IF r = 0 THEN S ELSE issue(S, r)

\* The promise connect() returned to call r will never be resolved.
abandon(S, r) == IF r = 0 THEN S ELSE [S EXCEPT !.call[r] = "hung"]

\* The open handler sending the connect message before the queue.
onOpenHandshakeFirst(S, t) ==
  LET S0 == setSocket(S, t, Socket("open", 0))
      S1 == [S0 EXCEPT !.connected = TRUE, !.reconnectAttempts = 0]
      S2 == startPingInterval(S1)
      S3 == sendMessage(S2, ConnectMsg)
      S4 == processMessageQueue(S3)
  IN resume(S4, t.s.waiter)

\* The open handler without `this.reconnectAttempts = 0`.
onOpenKeepingAttempts(S, t) ==
  LET S0 == setSocket(S, t, Socket("open", 0))
      S1 == [S0 EXCEPT !.connected = TRUE]
      S2 == startPingInterval(S1)
      S3 == processMessageQueue(S2)
      S4 == sendMessage(S3, ConnectMsg)
  IN resume(S4, t.s.waiter)

\* ws.on('open') of socket t
onOpen(S, t) ==
  LET S0 == setSocket(S, t, Socket("open", 0))
      S1 == [S0 EXCEPT !.connected = TRUE, !.reconnectAttempts = 0]
      S2 == startPingInterval(S1)
      S3 == processMessageQueue(S2)
      S4 == sendMessage(S3, ConnectMsg)
  IN resume(S4, t.s.waiter)

\* ws.on('close') of socket t
onClose(S, t) ==
  LET S0 == setSocket(S, t, ClosedSocket)
      S1 == [S0 EXCEPT !.connected = FALSE]
  IN scheduleReconnect(stopPingInterval(S1))

\* ws.on('error') of socket t, which is open: the promise of its connect()
\* was resolved when it opened, so the handler only logs; ws has begun to
\* close the socket.
onError(S, t) == setSocket(S, t, Socket("failing", 0))

\* A socket that never opened: ws emits error and then close in one turn;
\* the error handler resolves the promise unless the bridge is connected,
\* and the continuation of the awaiting call runs after both handlers.
onErrorThenClose(S, t) ==
  LET resolved == ~S.connected
      S1 == onClose(S, t)
  IN IF resolved THEN resume(S1, t.s.waiter) ELSE abandon(S1, t.s.waiter)

\* --------------------------------------------------------------- Init
InitIds ==
  /\ idOf = [r \in IdCalls |-> NoId]
  /\ handlerOf = [i \in Ids |-> 0]
  /\ idTimer = [r \in IdCalls |-> FALSE]
  /\ idSettled = [r \in IdCalls |-> FALSE]

InitCatalog ==
  /\ heap = <<>>
  /\ catalog = <<>>
  /\ returned = [given |-> FALSE, items |-> <<>>]

InitBridge ==
  /\ InitIds
  /\ InitCatalog
  /\ ws = NoSocket
  /\ connected = FALSE
  /\ messageQueue = <<>>
  /\ messageHandlers = {}
  /\ tools = EmptyTools
  /\ reconnectAttempts = 0
  /\ reconnectTimer = 0
  /\ pingInterval = FALSE
  /\ disposed = FALSE
  /\ orphans = EmptyBag
  /\ reconnectPending = FALSE
  /\ call = [r \in Calls |-> "idle"]
  /\ op = [r \in Calls |-> "none"]
  /\ timer = [r \in Calls |-> FALSE]
  /\ outcome = [r \in Calls |-> <<>>]
  /\ sent = <<>>
  /\ dropped = <<>>
  /\ received = NoMsg
  /\ fired = 0

InitFramer ==
  /\ messageBuffer = <<>>
  /\ handled = <<>>
  /\ written = <<>>
  /\ stream = <<>>
  /\ unread = <<>>

InitProcess ==
  /\ InitFramer
  /\ process = NoChild
  /\ isReady = FALSE
  /\ messageCallbacks = {}
  /\ onMessageListeners = <<>>
  /\ children = EmptyBag
  /\ pcall = [r \in Calls |-> "idle"]
  /\ pop = [r \in Calls |-> "none"]
  /\ ptimer = [r \in Calls |-> FALSE]
  /\ poutcome = [r \in Calls |-> <<>>]

Init ==
  /\ component \in {"bridge", "single", "process"}
  /\ InitBridge
  /\ InitProcess

InitBackoff ==
  /\ component = "backoff"
  /\ InitBridge
  /\ InitProcess

InitSingle ==
  /\ component = "single"
  /\ InitBridge
  /\ InitProcess

\* The bridge made with any URL, its caller making one request.
InitAnyUrl ==
  /\ component \in {"single", "invalid"}
  /\ InitBridge
  /\ InitProcess

InitProc ==
  /\ component = "process"
  /\ InitBridge
  /\ InitProcess

\* ------------------------------------------------ MCPBridge: actions
Bridge ==
  component \in {"bridge", "single", "backoff", "invalid"} /\ UNCHANGED <<component, processVars, framerVars, sideVars>>

Requests == component \in {"bridge", "single", "invalid"}

\* Behaviours with two requests have no other sendMessage call by the caller,
\* and take the error of an open socket together with the close that follows.
Full == component \in {"single", "backoff", "invalid"}

CallCap == IF component \in {"single", "invalid"} THEN MaxReq - 1 ELSE MaxReq

AttemptCap == IF component = "backoff" THEN MaxAttempts ELSE MaxRetries

NextCall(r) == r <= CallCap /\ call[r] = "idle" /\ \A q \in Calls : q < r => call[q] # "idle"

\* The caller calls connect().
CallConnect ==
  /\ Bridge
  /\ Becomes(connect(Cur))

\* The caller calls sendMessage(message).
CallSendMessage ==
  /\ Bridge
  /\ Full
  /\ Becomes(sendMessage(Cur, UserMsg))

\* The caller calls listTools() or executeTool(): up to the first await.
CallRequest(r, o) ==
  /\ Bridge
  /\ Requests
  /\ NextCall(r)
  /\ LET S0 == [Cur EXCEPT !.op[r] = o]
     IN IF connected \/ S0.throws
        THEN Becomes(issue(connectFor(S0, r), r))
        ELSE Becomes([connectFor(S0, r) EXCEPT !.call[r] = "awaitConnect"])

CallListTools(r) == CallRequest(r, "list_tools")

CallExecuteTool(r) == CallRequest(r, "execute_tool")

\* The caller calls disconnect().
Disconnect ==
  /\ Bridge
  /\ Becomes(disconnect(Cur))

\* The caller calls dispose().
Dispose ==
  /\ Bridge
  /\ Becomes(dispose(Cur))

\* Socket t emits open.
SocketOpen(t) ==
  /\ Bridge
  /\ t.s.st = "connecting"
  /\ Becomes(onOpen(Cur, t))

\* Socket t, which never opened or was terminated, emits (error and) close.
SocketFail(t) ==
  /\ Bridge
  /\ t.s.st \in {"connecting", "closing"}
  /\ reconnectAttempts < AttemptCap
  /\ Becomes(onErrorThenClose(Cur, t))

\* Socket t, which is open, emits error.
SocketError(t) ==
  /\ Bridge
  /\ Full
  /\ t.s.st = "open"
  /\ Becomes(onError(Cur, t))

\* Socket t, which is or was open, emits close.
SocketClose(t) ==
  /\ Bridge
  /\ t.s.st \in {"open", "failing"}
  /\ reconnectAttempts < AttemptCap
  /\ Becomes(onClose(Cur, t))

\* Socket t emits message.
SocketMessage(t, m) ==
  /\ Bridge
  /\ Requests
  /\ t.s.st = "open"
  /\ Becomes(handleMessage([Cur EXCEPT !.received = m.id], m))

\* The reconnect timeout fires.
ReconnectFire ==
  /\ Bridge
  /\ reconnectPending
  /\ Becomes(connect([Cur EXCEPT !.reconnectPending = FALSE]))

\* The ping interval fires.
PingTick ==
  /\ Bridge
  /\ pingInterval
  /\ Becomes(IF connected THEN sendMessage(Cur, PingMsg) ELSE Cur)

\* The timeout of request r fires.
RequestTimeout(r) ==
  /\ Bridge
  /\ timer[r]
  /\ Becomes(requestTimeout(Cur, r))

Lifecycle ==
  \/ CallConnect
  \/ CallSendMessage
  \/ Disconnect
  \/ Dispose
  \/ \E t \in Targets(Cur) : SocketOpen(t)
  \/ \E t \in Targets(Cur) : SocketFail(t)
  \/ \E t \in Targets(Cur) : SocketError(t)
  \/ \E t \in Targets(Cur) : SocketClose(t)
  \/ ReconnectFire
  \/ PingTick

\* ===================================================================
\* OpenManusProcess
\* ===================================================================
\* What the agent may write to its standard output, already framed: any
\* type, with any id or none; `full` says that the payload field of the type
\* (content, tools, tool_output) is present and not empty.
PInbound ==
  [type : {"initialize", "execute_tool_response", "prompt_response"},
   id : {NoId} \cup Calls, full : BOOLEAN]
  \cup [type : {"error"}, id : {NoId} \cup Calls, full : {FALSE}]

\* A readiness listener of start(): the call that awaits the promise (0: the
\* caller of start() itself), and whether its 30 s timeout is still armed
\* (if not, the promise is resolved false and the listener is still there).
Listener(owner, armed) == [owner |-> owner, armed |-> armed]

PCur ==
  [process |-> process, isReady |-> isReady, messageCallbacks |-> messageCallbacks,
   onMessageListeners |-> onMessageListeners, children |-> children, pcall |-> pcall,
   pop |-> pop, ptimer |-> ptimer, poutcome |-> poutcome,
   resumed |-> <<>>, overflow |-> FALSE]

PBecomes(S) ==
  /\ ~S.overflow
  /\ process' = S.process
  /\ isReady' = S.isReady
  /\ messageCallbacks' = S.messageCallbacks
  /\ onMessageListeners' = S.onMessageListeners
  /\ children' = S.children
  /\ pcall' = S.pcall
  /\ pop' = S.pop
  /\ ptimer' = S.ptimer
  /\ poutcome' = S.poutcome

ChildCount(S) == BagCardinality(S.children) + (IF S.process.st # "null" THEN 1 ELSE 0)

PTargets(S) ==
  {[held |-> TRUE, c |-> S.process] : x \in IF S.process.st # "null" THEN {1} ELSE {}}
  \cup {[held |-> FALSE, c |-> o] : o \in BagToSet(S.children)}

\* this.process = null: the child held so far lives on as `as`.
letGo(S, as) ==
  IF S.process.st = "null" THEN S
  ELSE [S EXCEPT !.children = @ (+) SetToBag({Child(as)}), !.process = NoChild]

psettle(S, r, val) ==
  [S EXCEPT !.poutcome[r] = Append(@, val), !.pcall[r] = "settled"]

\* The callback sendPrompt registers.
promptCallback(S, r, m) ==
  IF m.type = "prompt_response" /\ m.full THEN psettle(S, r, "content")
  ELSE IF m.type = "error" THEN psettle(S, r, "null")
  ELSE S

\* The callback executeTool registers.
toolCallback(S, r, m) ==
  IF m.type = "execute_tool_response"
  THEN psettle(S, r, IF m.full THEN "tool_output" ELSE "null")
  ELSE psettle(S, r, "null")

\* The callback getAvailableTools registers.
toolsCallback(S, r, m) ==
  IF m.type = "initialize" /\ m.full THEN psettle(S, r, "tools")
  ELSE psettle(S, r, "null")

callback(S, r, m) ==
  CASE S.pop[r] = "prompt" -> promptCallback(S, r, m)
    [] S.pop[r] = "tool" -> toolCallback(S, r, m)
    [] OTHER -> toolsCallback(S, r, m)

RemoveAt(q, i) == SubSeq(q, 1, i - 1) \o SubSeq(q, i + 1, Len(q))

\* The readiness listener at index i is called with m.
listener(S, i, m) ==
  IF m.type = "initialize"
  THEN LET l == S.onMessageListeners[i]
       IN [S EXCEPT !.isReady = TRUE,
                    !.onMessageListeners = RemoveAt(@, i),
                    !.resumed = IF l.armed /\ l.owner # 0 THEN Append(@, l.owner) ELSE @]
  ELSE S

\* for (const listener of this.onMessageListeners) listener(message): the
\* array iterator reads the array as it is at each step.
RECURSIVE notify(_, _, _)
notify(S, i, m) ==
  IF i > Len(S.onMessageListeners) THEN S
  ELSE notify(listener(S, i, m), i + 1, m)

\* How many listeners that loop calls.
RECURSIVE notifyCalls(_, _, _)
notifyCalls(S, i, m) ==
  IF i > Len(S.onMessageListeners) THEN 0
  ELSE 1 + notifyCalls(listener(S, i, m), i + 1, m)

phandleMessage(S, m) ==
  LET S1 == notify(S, 1, m)
      S2 == IF m.id # NoId /\ m.id \in S1.messageCallbacks
            THEN [callback(S1, m.id, m) EXCEPT !.messageCallbacks = @ \ {m.id}]
            ELSE S1
  IN IF m.type = "initialize" THEN [S2 EXCEPT !.isReady = TRUE] ELSE S2

\* The part of executeTool/getAvailableTools after start(), and the promise
\* executor of sendPrompt: register the callback, arm the timeout.
pissue(S, r) ==
  [S EXCEPT !.messageCallbacks = @ \cup {r}, !.pcall[r] = "pending", !.ptimer[r] = TRUE]

RECURSIVE resumeAll(_, _)
resumeAll(S, q) ==
  IF q = <<>> THEN S ELSE resumeAll(pissue(S, Head(q)), Tail(q))

\* The continuations the step made ready run when it is over.
continue(S) == resumeAll([S EXCEPT !.resumed = <<>>], S.resumed)

\* The timeout callback of a request.
ptimeout(S, r) ==
  LET S1 == [S EXCEPT !.ptimer[r] = FALSE]
  IN IF r \in S1.messageCallbacks
     THEN psettle([S1 EXCEPT !.messageCallbacks = @ \ {r}], r, "null")
     ELSE S1

\* start() called for call r (0: by the caller): spawn and wait for readiness,
\* unless a child is held.
start(S, r) ==
  IF S.process.st # "null" THEN (IF r = 0 THEN S ELSE pissue(S, r))
  ELSE IF ChildCount(S) >= MaxChildren \/ Len(S.onMessageListeners) >= MaxListeners
  THEN [S EXCEPT !.overflow = TRUE]
  ELSE LET S1 == [S EXCEPT !.process = Child("running"),
                           !.onMessageListeners = Append(@, Listener(r, TRUE))]
       IN IF r = 0 THEN S1 ELSE [S1 EXCEPT !.pcall[r] = "awaitStart"]

\* The 30 s timeout of the readiness listener at index i: resolve(false).
startTimeout(S, i) ==
  LET l == S.onMessageListeners[i]
      S1 == [S EXCEPT !.onMessageListeners[i] = Listener(0, FALSE)]
  IN IF l.owner # 0 THEN psettle(S1, l.owner, "null") ELSE S1

\* stop() without `if (!this.process) return true`.
stopUnguarded(S) == [letGo(S, "killed") EXCEPT !.isReady = FALSE]

stop(S) ==
  IF S.process.st = "null" THEN S
  ELSE [letGo(S, "killed") EXCEPT !.isReady = FALSE]

\* process.on('close') and process.on('error')
onChildGone(S) == [S EXCEPT !.process = NoChild, !.isReady = FALSE]

\* ------------------------------------------- OpenManusProcess: actions
Proc == component = "process" /\ UNCHANGED <<component, bridgeVars, framerVars, sideVars>>

NextPCall(r) == pcall[r] = "idle" /\ \A q \in Calls : q < r => pcall[q] # "idle"

\* The caller calls start().
CallStart ==
  /\ Proc
  /\ PBecomes(start(PCur, 0))

\* The caller calls stop() or dispose().
CallStop ==
  /\ Proc
  /\ PBecomes(stop(PCur))

\* The caller calls sendPrompt(prompt).
CallSendPrompt(r) ==
  /\ Proc
  /\ NextPCall(r)
  /\ LET S0 == [PCur EXCEPT !.pop[r] = "prompt"]
     IN IF process.st = "null"
        THEN PBecomes(psettle(S0, r, "null"))
        ELSE PBecomes(pissue(S0, r))

\* The caller calls executeTool() or getAvailableTools().
CallTool(r, o) ==
  /\ Proc
  /\ NextPCall(r)
  /\ LET S0 == [PCur EXCEPT !.pop[r] = o]
     IN IF process.st = "null" \/ ~isReady
        THEN PBecomes(start(S0, r))
        ELSE PBecomes(pissue(S0, r))

CallPExecuteTool(r) == CallTool(r, "tool")

CallGetAvailableTools(r) == CallTool(r, "tools")

\* Child t writes message m to its standard output.
ChildMessage(t, m) ==
  /\ Proc
  /\ t.c.st \in {"running", "killed"}
  /\ PBecomes(continue(phandleMessage(PCur, m)))

\* Child t emits error.
ChildError(t) ==
  /\ Proc
  /\ t.c.st = "running"
  /\ LET S0 == IF t.held THEN letGo(PCur, "failed")
               ELSE letGo([PCur EXCEPT !.children = (@ (-) SetToBag({t.c}))
                                                     (+) SetToBag({Child("failed")})],
                          "running")
     IN PBecomes(onChildGone(S0))

\* Child t emits close.
ChildClose(t) ==
  /\ Proc
  /\ LET S0 == IF t.held THEN [PCur EXCEPT !.process = NoChild]
               ELSE [PCur EXCEPT !.children = @ (-) SetToBag({t.c})]
     IN PBecomes(onChildGone(letGo(S0, "running")))

\* The timeout of request r fires.
PTimeout(r) ==
  /\ Proc
  /\ ptimer[r]
  /\ PBecomes(ptimeout(PCur, r))

\* The 30 s timeout of the readiness listener at index i fires.
StartTimeout(i) ==
  /\ Proc
  /\ i \in 1..Len(onMessageListeners)
  /\ onMessageListeners[i].armed
  /\ PBecomes(startTimeout(PCur, i))

NextProc ==
  \/ CallStart
  \/ CallStop
  \/ \E r \in Calls : CallSendPrompt(r)
  \/ \E r \in Calls : CallPExecuteTool(r)
  \/ \E r \in Calls : CallGetAvailableTools(r)
  \/ \E t \in PTargets(PCur), m \in PInbound : ChildMessage(t, m)
  \/ \E t \in PTargets(PCur) : ChildError(t)
  \/ \E t \in PTargets(PCur) : ChildClose(t)
  \/ \E r \in Calls : PTimeout(r)
  \/ \E i \in 1..MaxListeners : StartTimeout(i)

NextBridge ==
  \/ Lifecycle
  \/ \E r \in Calls : CallListTools(r)
  \/ \E r \in Calls : CallExecuteTool(r)
  \/ \E t \in Targets(Cur), m \in Inbound : SocketMessage(t, m)
  \/ \E r \in Calls : RequestTimeout(r)

Next == NextBridge \/ NextProc

Spec == Init /\ [][Next]_vars

BackoffSpec == InitBackoff /\ [][Lifecycle]_vars

RequestSpec == InitSingle /\ [][NextBridge]_vars

UrlSpec == InitAnyUrl /\ [][NextBridge]_vars

ProcSpec == InitProc /\ [][NextProc]_vars

FairProcSpec ==
  /\ ProcSpec
  /\ \A r \in Calls : WF_vars(PTimeout(r))
  /\ \A i \in 1..MaxListeners : WF_vars(StartTimeout(i))

\* ===================================================================
\* MCPBridge: message ids
\* ===================================================================
\* The bridge is connected throughout; only the handler map matters here.
IdStep == component = "ids" /\ UNCHANGED <<component, bridgeVars, processVars, framerVars, catalogVars>>

\* executeTool(): generateMessageId() returns id, the handler of call r is
\* set under it, the timeout is armed.
IdExecuteTool(r, id) ==
  /\ IdStep
  /\ idOf[r] = NoId
  /\ \A q \in IdCalls : q < r => idOf[q] # NoId
  /\ idOf' = [idOf EXCEPT ![r] = id]
  /\ handlerOf' = [handlerOf EXCEPT ![id] = r]
  /\ idTimer' = [idTimer EXCEPT ![r] = TRUE]
  /\ UNCHANGED idSettled

\* handleMessage(message) with message.id = id: the handler set under id, if
\* any, is called (it settles its call) and deleted.
IdMessage(id) ==
  /\ IdStep
  /\ handlerOf[id] # 0
  /\ idSettled' = [idSettled EXCEPT ![handlerOf[id]] = TRUE]
  /\ handlerOf' = [handlerOf EXCEPT ![id] = 0]
  /\ UNCHANGED <<idOf, idTimer>>

\* The timeout of call r: if a handler is set under its id, the handler is
\* deleted and the promise of call r is rejected.
IdTimeout(r) ==
  /\ IdStep
  /\ idTimer[r]
  /\ idTimer' = [idTimer EXCEPT ![r] = FALSE]
  /\ IF handlerOf[idOf[r]] # 0
     THEN /\ handlerOf' = [handlerOf EXCEPT ![idOf[r]] = 0]
          /\ idSettled' = [idSettled EXCEPT ![r] = TRUE]
     ELSE UNCHANGED <<handlerOf, idSettled>>
  /\ UNCHANGED idOf

InitIdGen ==
  /\ component = "ids"
  /\ InitBridge
  /\ InitProcess

NextIds ==
  \/ \E r \in IdCalls, id \in Ids : IdExecuteTool(r, id)
  \/ \E id \in Ids : IdMessage(id)
  \/ \E r \in IdCalls : IdTimeout(r)

IdSpec == InitIdGen /\ [][NextIds]_vars

\* ===================================================================
\* MCPBridge: the tool list
\* ===================================================================
CatalogStep == component = "catalog" /\ UNCHANGED <<component, bridgeVars, processVars, framerVars, idVars>>

\* handleMessage() with a list_tools message that has tools: this.tools is
\* the array JSON.parse made, of objects just created.
CatalogMessage(names) ==
  /\ CatalogStep
  /\ Len(heap) + Len(names) <= MaxObjects
  /\ heap' = heap \o names
  /\ catalog' = [i \in 1..Len(names) |-> Len(heap) + i]
  /\ UNCHANGED returned

\* getTools(): [...this.tools], a new array of the same objects.
GetTools ==
  /\ CatalogStep
  /\ returned' = [given |-> TRUE, items |-> catalog]
  /\ UNCHANGED <<heap, catalog>>

\* The caller adds an object of its own to the array it was given.
CallerPush(name) ==
  /\ CatalogStep
  /\ returned.given
  /\ Len(heap) < MaxObjects
  /\ heap' = Append(heap, name)
  /\ returned' = [returned EXCEPT !.items = Append(@, Len(heap) + 1)]
  /\ UNCHANGED catalog

\* The caller removes the entry at index i of the array it was given.
CallerRemove(i) ==
  /\ CatalogStep
  /\ returned.given
  /\ i \in 1..Len(returned.items)
  /\ returned' = [returned EXCEPT !.items = SubSeq(@, 1, i - 1) \o SubSeq(@, i + 1, Len(@))]
  /\ UNCHANGED <<heap, catalog>>

\* The caller assigns to the name of the entry at index i of that array.
CallerAlter(i, name) ==
  /\ CatalogStep
  /\ returned.given
  /\ i \in 1..Len(returned.items)
  /\ heap[returned.items[i]] # name
  /\ heap' = [heap EXCEPT ![returned.items[i]] = name]
  /\ UNCHANGED <<catalog, returned>>

\* What getTools() returns, by value.
CatalogView == [i \in 1..Len(catalog) |-> heap[catalog[i]]]

InitCatalogUse ==
  /\ component = "catalog"
  /\ InitBridge
  /\ InitProcess

CallerStep ==
  \/ \E name \in ToolNames : CallerPush(name)
  \/ \E i \in 1..MaxObjects : CallerRemove(i)
  \/ \E i \in 1..MaxObjects, name \in ToolNames : CallerAlter(i, name)

NextCatalog ==
  \/ \E names \in UNION {[1..n -> ToolNames] : n \in 0..MaxTools} : CatalogMessage(names)
  \/ GetTools
  \/ CallerStep

CatalogSpec == InitCatalogUse /\ [][NextCatalog]_vars

\* ===================================================================
\* The framer of OpenManusProcess
\* ===================================================================
\* Text is a sequence of characters.  A message is a JSON object with one
\* member, whose value is a string or another such object.
Quote == "\""

Str(s) == <<"string", s>>

Obj(k, v) == <<"object", k, v>>

Key == <<"c">>

\* String contents: plain, and with braces in them.
Contents == {<<"c">>, <<"{">>, <<"}">>, <<"{", "}">>, <<"}", "{">>}

FramerMessages ==
  {Obj(Key, Str(s)) : s \in Contents} \cup {Obj(Key, Obj(Key, Str(<<"c">>)))}

\* JSON.stringify(message)
RECURSIVE stringify(_)
stringify(v) ==
  IF v[1] = "string" THEN <<Quote>> \o v[2] \o <<Quote>>
  ELSE <<"{", Quote>> \o v[2] \o <<Quote, ":">> \o stringify(v[3]) \o <<"}">>

\* buf.indexOf(ch, from), with positions from 1 and 0 for "not found".
indexOf(buf, ch, from) ==
  IF \E i \in from..Len(buf) : buf[i] = ch
  THEN CHOOSE i \in from..Len(buf) :
         buf[i] = ch /\ \A j \in from..(i - 1) : buf[j] # ch
  ELSE 0

\* JSON.parse(text), for the objects above: white space between the tokens
\* is skipped, anything else that does not belong fails.
Failed == [ok |-> FALSE, next |-> 0, val |-> <<>>]

RECURSIVE skipSpace(_, _)
skipSpace(text, i) ==
  IF i <= Len(text) /\ text[i] = "\n" THEN skipSpace(text, i + 1) ELSE i

parseString(text, i) ==
  IF i > Len(text) \/ text[i] # Quote THEN Failed
  ELSE LET j == indexOf(text, Quote, i + 1)
       IN IF j = 0 THEN Failed
          ELSE [ok |-> TRUE, next |-> j + 1, val |-> Str(SubSeq(text, i + 1, j - 1))]

RECURSIVE parseValue(_, _)
parseValue(text, i0) ==
  LET i == skipSpace(text, i0)
  IN IF i > Len(text) THEN Failed
     ELSE IF text[i] = Quote THEN parseString(text, i)
     ELSE IF text[i] # "{" THEN Failed
     ELSE LET k == parseString(text, skipSpace(text, i + 1))
              c == IF k.ok THEN skipSpace(text, k.next) ELSE 0
              v == IF k.ok /\ c <= Len(text) /\ text[c] = ":"
                   THEN parseValue(text, c + 1) ELSE Failed
              e == IF v.ok THEN skipSpace(text, v.next) ELSE 0
          IN IF v.ok /\ e <= Len(text) /\ text[e] = "}"
             THEN [ok |-> TRUE, next |-> e + 1, val |-> Obj(k.val[2], v.val)]
             ELSE Failed

JSONparse(text) ==
  LET v == parseValue(text, 1)
  IN IF v.ok /\ skipSpace(text, v.next) = Len(text) + 1 THEN v ELSE Failed

\* The depth scan of processOutput from position i: the position of the
\* closing brace that brings the depth back to 0, or 0 if there is none.
RECURSIVE scan(_, _, _)
scan(buf, i, depth) ==
  IF i > Len(buf) THEN 0
  ELSE IF buf[i] = "{" THEN scan(buf, i + 1, depth + 1)
  ELSE IF buf[i] = "}"
  THEN (IF depth - 1 = 0 THEN i ELSE scan(buf, i + 1, depth - 1))
  ELSE scan(buf, i + 1, depth)

\* processOutput that looks for more messages in the rest of the buffer
\* before it hands over the one it has parsed.
RECURSIVE processOutputRestFirst(_, _)
processOutputRestFirst(F, output) ==
  LET buf == F.messageBuffer \o output
      startIndex == indexOf(buf, "{", 1)
      endIndex == IF startIndex = 0 THEN 0 ELSE scan(buf, startIndex, 0)
  IN IF startIndex = 0 \/ endIndex = 0 THEN [F EXCEPT !.messageBuffer = buf]
     ELSE LET parsed == JSONparse(SubSeq(buf, startIndex, endIndex))
          IN IF parsed.ok
             THEN LET F1 == [F EXCEPT !.messageBuffer = SubSeq(buf, endIndex + 1, Len(buf))]
                      F2 == IF Len(F1.messageBuffer) > 0
                            THEN processOutputRestFirst(F1, <<>>) ELSE F1
                  IN [F2 EXCEPT !.handled = Append(@, parsed.val)]
             ELSE LET nextStart == indexOf(buf, "{", startIndex + 1)
                  IN [F EXCEPT !.messageBuffer =
                        IF nextStart # 0 THEN SubSeq(buf, nextStart, Len(buf)) ELSE <<>>]

\* processOutput(output), on the buffer and the messages handled so far.
RECURSIVE processOutput(_, _)
processOutput(F, output) ==
  LET buf == F.messageBuffer \o output
      startIndex == indexOf(buf, "{", 1)
      endIndex == IF startIndex = 0 THEN 0 ELSE scan(buf, startIndex, 0)
  IN IF startIndex = 0 \/ endIndex = 0 THEN [F EXCEPT !.messageBuffer = buf]
     ELSE LET parsed == JSONparse(SubSeq(buf, startIndex, endIndex))
          IN IF parsed.ok
             THEN LET F1 == [messageBuffer |-> SubSeq(buf, endIndex + 1, Len(buf)),
                             handled |-> Append(F.handled, parsed.val)]
                  IN IF Len(F1.messageBuffer) > 0 THEN processOutput(F1, <<>>) ELSE F1
             ELSE LET nextStart == indexOf(buf, "{", startIndex + 1)
                  IN [F EXCEPT !.messageBuffer =
                        IF nextStart # 0 THEN SubSeq(buf, nextStart, Len(buf)) ELSE <<>>]

\* The text of the messages ms, each followed by sep.
RECURSIVE textOf(_, _)
textOf(ms, sep) ==
  IF ms = <<>> THEN <<>> ELSE stringify(Head(ms)) \o sep \o textOf(Tail(ms), sep)

Frame == [messageBuffer |-> messageBuffer, handled |-> handled]

NoFrame == [messageBuffer |-> <<>>, handled |-> <<>>]

\* The agent writes one or more messages, each on a line of its own or one
\* right after the other.
InitFraming ==
  /\ component = "framer"
  /\ InitBridge
  /\ process = NoChild
  /\ isReady = FALSE
  /\ messageCallbacks = {}
  /\ onMessageListeners = <<>>
  /\ children = EmptyBag
  /\ pcall = [r \in Calls |-> "idle"]
  /\ pop = [r \in Calls |-> "none"]
  /\ ptimer = [r \in Calls |-> FALSE]
  /\ poutcome = [r \in Calls |-> <<>>]
  /\ messageBuffer = <<>>
  /\ handled = <<>>
  /\ written \in UNION {[1..n -> FramerMessages] : n \in 1..MaxWritten}
  /\ \E sep \in {<<>>, <<"\n">>} : stream = textOf(written, sep)
  /\ unread = stream

\* process.stdout.on('data') with the next n characters of the output.
ChildData(n) ==
  /\ component \in {"framer", "restart"}
  /\ n \in 1..Len(unread)
  /\ LET F == processOutput(Frame, SubSeq(unread, 1, n))
     IN /\ messageBuffer' = F.messageBuffer
        /\ handled' = F.handled
  /\ unread' = SubSeq(unread, n + 1, Len(unread))
  /\ UNCHANGED <<component, bridgeVars, processVars, sideVars, written, stream>>

NextFramer == \E n \in 1..Len(stream) : ChildData(n)

FramerSpec == InitFraming /\ [][NextFramer]_vars

\* ---- the agent's log lines on the same output
\* `--debug` makes the agent log to its standard output.  A log line: none,
\* plain text, text with a brace that has no match, text with braces that match.
LogLines ==
  {<<>>, <<"l", "\n">>, <<"{", "\n">>, <<"}", "\n">>, <<"{", "{", "l", "}", "}", "\n">>}

\* A message with no brace in its strings, on a line of its own.
PlainMessage == Obj(Key, Str(<<"c">>))

\* The log lines logs[0], ..., logs[Len(ms)] with the messages ms between them.
RECURSIVE interleave(_, _, _)
interleave(logs, ms, i) ==
  IF i > Len(ms) THEN logs[Len(ms)]
  ELSE logs[i - 1] \o stringify(ms[i]) \o <<"\n">> \o interleave(logs, ms, i + 1)

InitLogging ==
  /\ component = "framer"
  /\ InitBridge
  /\ process = NoChild
  /\ isReady = FALSE
  /\ messageCallbacks = {}
  /\ onMessageListeners = <<>>
  /\ children = EmptyBag
  /\ pcall = [r \in Calls |-> "idle"]
  /\ pop = [r \in Calls |-> "none"]
  /\ ptimer = [r \in Calls |-> FALSE]
  /\ poutcome = [r \in Calls |-> <<>>]
  /\ messageBuffer = <<>>
  /\ handled = <<>>
  /\ written \in UNION {[1..n -> {PlainMessage}] : n \in 1..MaxWritten}
  /\ \E logs \in [0..Len(written) -> LogLines] : stream = interleave(logs, written, 1)
  /\ unread = stream

LogSpec == InitLogging /\ [][NextFramer]_vars

\* ---- the framer over children started one after the other
Restart == component = "restart" /\ UNCHANGED <<component, bridgeVars, sideVars>>

\* The caller calls start(): the child spawned will write one or more
\* messages, each on a line of its own.  `handled` starts again with it.
RestartCallStart ==
  /\ Restart
  /\ process.st = "null"
  /\ PBecomes(start(PCur, 0))
  /\ written' \in UNION {[1..n -> {PlainMessage}] : n \in 1..MaxWritten}
  /\ stream' = textOf(written', <<"\n">>)
  /\ unread' = stream'
  /\ handled' = <<>>
  /\ UNCHANGED messageBuffer

\* The caller calls stop(): what the child has not yet written is never written.
RestartCallStop ==
  /\ Restart
  /\ process.st # "null"
  /\ PBecomes(stop(PCur))
  /\ unread' = <<>>
  /\ UNCHANGED <<messageBuffer, handled, written, stream>>

InitRestart ==
  /\ component = "restart"
  /\ InitBridge
  /\ InitProcess

NextRestart ==
  \/ RestartCallStart
  \/ RestartCallStop
  \/ \E n \in 1..Len(stream) : ChildData(n)

RestartSpec == InitRestart /\ [][NextRestart]_vars

\* ===================================================================
\* Properties
\* ===================================================================
IsPrefix(p, q) == Len(p) <= Len(q) /\ SubSeq(q, 1, Len(p)) = p

\* The sockets of the bridge that are connecting or open.
Live == {"connecting", "open"}

LiveOrphans == [o \in {x \in BagToSet(orphans) : x.st \in Live} |-> orphans[o]]

LiveSockets == BagCardinality(LiveOrphans) + (IF ws.st \in Live THEN 1 ELSE 0)

\* The delays the documentation lists, by attempt (from 0).
DelayTable == <<1000, 2000, 4000, 8000, 16000, 30000, 30000>>

\* ---- C1
\* C1: every request of OpenManusProcess that is waiting for its reply is
\* eventually settled, whatever the reply: by the reply or by its timeout.
\* (Stated for sendPrompt/executeTool/getAvailableTools; the timeouts are
\* fair in FairProcSpec.)
EveryRequestSettles ==
  \A r \in Calls : (pcall[r] = "pending") ~> (pcall[r] = "settled")

\* ---- C2
\* C2: no request is settled more than once: the reply and the timeout of a
\* request never both call resolve/reject.
SettledAtMostOnce ==
  \A r \in Calls : Len(outcome[r]) <= 1 /\ Len(poutcome[r]) <= 1

\* A request settled by its reply whose timeout has fired since.
ReplyThenTimeout ==
  \E r \in Calls :
    /\ outcome[r] = <<[kind |-> "resolve", val |-> "result"]>>
    /\ call[r] = "settled"
    /\ ~timer[r]

\* ---- C3
\* C3: the close event of a socket that disconnect()/dispose() terminated
\* does not schedule a reconnect.
TerminatedCloseSchedulesNothing ==
  [][\A t \in Targets(Cur) :
       (t.s.st = "closing" /\ SocketFail(t)) => ~reconnectPending']_vars

\* ---- C4
\* C4: at most one WebSocket of the bridge is connecting or open at any time.
AtMostOneLiveSocket == LiveSockets <= 1

\* ---- C5
\* C5: when a socket opens, the messages queued while the bridge was not
\* connected are all transmitted, in the order they were queued, before
\* anything else.
QueueFlushedOnOpen ==
  [][\A t \in Targets(Cur) : SocketOpen(t) => IsPrefix(messageQueue, sent')]_vars

\* ---- C6
\* C6: a close event schedules a reconnect after 1000, 2000, 4000, 8000,
\* 16000, 30000, 30000 ms for attempts 0 to 6, and adds one to the attempt
\* counter.
BackoffTable ==
  [][\A t \in Targets(Cur) :
       (SocketFail(t) \/ SocketClose(t)) =>
         /\ reconnectAttempts' = reconnectAttempts + 1
         /\ reconnectPending'
         /\ reconnectAttempts < Len(DelayTable)
              => reconnectTimer' = DelayTable[reconnectAttempts + 1]]_vars

\* The seventh close in a row has scheduled its reconnect.
SeventhAttemptScheduled ==
  /\ component = "backoff"
  /\ reconnectAttempts = 7
  /\ reconnectTimer = 30000
  /\ reconnectPending

\* ---- C7
\* C7: an open event leaves the attempt counter at 0; a close event that
\* finds the counter at 0 schedules the reconnect after 1000 ms; the counter
\* changes at no other step, and while it is above 0 a close event schedules
\* a delay that is not shorter than the one scheduled before it.
BackoffResets ==
  [][/\ \A t \in Targets(Cur) : SocketOpen(t) => reconnectAttempts' = 0
     /\ \A t \in Targets(Cur) :
          (SocketFail(t) \/ SocketClose(t)) =>
            /\ reconnectAttempts = 0 => reconnectTimer' = BaseDelayMs
            /\ (reconnectAttempts > 0 /\ reconnectTimer # 0)
                 => reconnectTimer' >= reconnectTimer
     /\ reconnectAttempts' # reconnectAttempts =>
          \E t \in Targets(Cur) : SocketOpen(t) \/ SocketFail(t) \/ SocketClose(t)]_vars

\* A socket is open and the first close event since it opened has scheduled
\* the reconnect.
FirstCloseAfterOpen ==
  /\ component = "backoff"
  /\ \E t \in Targets(Cur) : t.s.st = "open"
  /\ reconnectAttempts = 1
  /\ reconnectTimer = BaseDelayMs
  /\ reconnectPending

\* ---- C8
\* C8: dispose() settles every pending request and removes its handler.
DisposeSettlesPending ==
  [][(Dispose /\ ~disposed) =>
       /\ messageHandlers' = {}
       /\ \A r \in messageHandlers : Len(outcome'[r]) = Len(outcome[r]) + 1]_vars

\* ---- C9
\* C9: the close event of an open socket settles every pending request in
\* that same step.
CloseSettlesPending ==
  [][\A t \in Targets(Cur) :
       SocketClose(t) =>
         /\ messageHandlers' = {}
         /\ \A r \in messageHandlers : Len(outcome'[r]) = Len(outcome[r]) + 1]_vars

\* ---- C10
\* C10: a message whose id has no handler (also the late reply to a request
\* that timed out) goes to the onMessage subscribers and nowhere else: the
\* handlers, the calls, their timeouts and their outcomes stay as they are.
UnmatchedOnlyBroadcast ==
  [][(received' # NoMsg /\ received' \notin messageHandlers) =>
       /\ messageHandlers' = messageHandlers
       /\ outcome' = outcome
       /\ call' = call
       /\ timer' = timer
       /\ fired' = (IF disposed THEN 0 ELSE 1)]_vars

\* The reply to a request that timed out has just arrived.
LateReplyArrived ==
  \E r \in Calls :
    /\ received = r
    /\ outcome[r] = <<[kind |-> "reject", val |-> "timeout"]>>
    /\ fired = 1

\* ---- C11
\* C11: every message the child writes is handed to every listener that is
\* registered when it arrives; a readiness listener that is handed an
\* initialize message removes itself, so after an initialize message no
\* readiness listener is left.
EveryListenerNotified ==
  [][\A t \in PTargets(PCur), m \in PInbound :
       (ChildMessage(t, m) /\ m.type = "initialize") => onMessageListeners' = <<>>]_vars

\* ---- C14
\* C14: connect() on a connected bridge changes nothing: no new WebSocket, no
\* message handed to a socket, and the attempt counter, the timers, the queue
\* and the pending requests are as before.
ConnectWhenConnectedIsNoOp ==
  [][(CallConnect /\ connected) =>
       /\ UNCHANGED <<ws, orphans, connected, messageQueue, messageHandlers,
                      reconnectAttempts, reconnectTimer, reconnectPending,
                      pingInterval, timer, call, outcome>>
       /\ sent' = <<>>
       /\ dropped' = <<>>]_vars

\* A connected bridge with a request pending and a reconnect delay on record,
\* right after a step that handed nothing to a socket and took nothing from one.
QuietWhileConnected ==
  /\ connected
  /\ ws.st = "open"
  /\ messageHandlers # {}
  /\ reconnectTimer # 0
  /\ sent = <<>>
  /\ dropped = <<>>
  /\ received = NoMsg

\* ---- C18
\* C18: a child process that is not the one held in this.process has been
\* stopped or has failed: isRunning() is false only when no spawned child is
\* still running, so start() never spawns a second live child.
NoLiveChildUnheld == \A c \in BagToSet(children) : c.st # "running"

\* ---- C16
\* What executeTool is to do with a reply of each type.
ReplyOutcome(type) ==
  IF type = "tool_result" THEN [kind |-> "resolve", val |-> "result"]
  ELSE IF type = "error" THEN [kind |-> "reject", val |-> "error"]
  ELSE [kind |-> "reject", val |-> "unexpected"]

\* C16: the reply that carries the id of a pending executeTool request
\* settles it by its type (tool_result: resolved with the result; error:
\* rejected with the error; any other type: rejected as unexpected), and the
\* timeout of a request still pending rejects it as timed out.
ExecuteToolSettlesByReply ==
  [][/\ \A m \in Inbound :
          (m.id \in messageHandlers /\ op[m.id] = "execute_tool") =>
            \A t \in Targets(Cur) :
              SocketMessage(t, m) => outcome'[m.id] = <<ReplyOutcome(m.type)>>
     /\ \A r \in Calls :
          (r \in messageHandlers /\ op[r] = "execute_tool" /\ RequestTimeout(r))
            => outcome'[r] = <<[kind |-> "reject", val |-> "timeout"]>>]_vars

\* An executeTool request rejected because its reply was of another type.
RejectedAsUnexpected ==
  \E r \in Calls :
    /\ op[r] = "execute_tool"
    /\ received = r
    /\ outcome[r] = <<[kind |-> "reject", val |-> "unexpected"]>>

ErrorEventDisconnects ==
  [][\A t \in Targets(Cur) :
       (connected /\ SocketError(t)) =>
         /\ ~connected'
         /\ ~pingInterval'
         /\ reconnectPending'
         /\ reconnectTimer' = ReconnectDelay(reconnectAttempts)
         /\ reconnectAttempts' = reconnectAttempts + 1]_vars

\* ---- C12
\* C12: however the agent's output is cut into chunks, once all of it has
\* been delivered processOutput has handed to handleMessage the messages it
\* hands over when the output arrives as one chunk.
ChunkingInvariance ==
  (component = "framer" /\ unread = <<>>)
    => handled = processOutput(NoFrame, stream).handled

\* ---- C13
\* C13: the text of one message, once delivered, has been handed to
\* handleMessage as exactly that message.
FramerRoundTrip ==
  (component = "framer" /\ Len(written) = 1 /\ unread = <<>>) => handled = written

\* ---- C15
\* C15: no two executeTool calls whose promises are not settled have
\* messages with the same id.
PendingIdsDistinct ==
  \A r, q \in IdCalls :
    (r # q /\ idOf[r] # NoId /\ idOf[q] # NoId /\ ~idSettled[r] /\ ~idSettled[q])
      => idOf[r] # idOf[q]

\* ---- C17
\* C17: nothing the caller does to the array getTools() returned, or to what
\* is in it, changes what getTools() returns.
GetToolsIsDefensive == [][CallerStep => CatalogView' = CatalogView]_vars

\* ---- C21
\* C21: when disconnect() returns, the reconnect timer is cleared and not
\* pending, the ping interval is cleared, this.ws is null and the socket it
\* held is terminated, the message queue is empty and the bridge is not
\* connected.
DisconnectLeavesNothing ==
  [][Disconnect =>
       /\ reconnectTimer' = 0
       /\ ~reconnectPending'
       /\ ~pingInterval'
       /\ ws' = NoSocket
       /\ (ws.st \in Emitting => Socket("closing", ws.waiter) \in BagToSet(orphans'))
       /\ ~connected'
       /\ messageQueue' = <<>>]_vars

\* ---- C22
\* A step in which connect() makes an attempt, or a socket emits close.
ConnectAttempt ==
  /\ ~connected
  /\ \/ CallConnect
     \/ ReconnectFire
     \/ CallSendMessage
     \/ \E r \in Calls : CallListTools(r) \/ CallExecuteTool(r)

SocketGone == \E t \in Targets(Cur) : SocketFail(t) \/ SocketClose(t)

\* C22: after every connect() attempt and every close event the bridge is
\* connected, or a socket of its own is connecting, or the reconnect timeout
\* is pending; and the timeout stops being pending only by firing or by
\* disconnect()/dispose().
ReconnectLoopContinues ==
  [][/\ (ConnectAttempt \/ SocketGone) =>
          \/ connected'
          \/ reconnectPending'
          \/ \E t \in Targets(Cur)' : t.s.st = "connecting"
     /\ (reconnectPending /\ ~reconnectPending') =>
          (ReconnectFire \/ Disconnect \/ Dispose)]_vars

\* ---- C23
\* C23: when the first frame processOutput finds in the buffer (from the
\* first '{' to the '}' that brings the depth back to 0) does not parse,
\* nothing is handed to handleMessage and what is left in the buffer is text
\* that came after the frame: none of the frame itself.
FailedFrameDiscarded ==
  [][\A n \in 1..Len(unread) :
       ChildData(n) =>
         LET buf == messageBuffer \o SubSeq(unread, 1, n)
             startIndex == indexOf(buf, "{", 1)
             endIndex == IF startIndex = 0 THEN 0 ELSE scan(buf, startIndex, 0)
         IN (endIndex # 0 /\ ~JSONparse(SubSeq(buf, startIndex, endIndex)).ok) =>
              /\ handled' = handled
              /\ Len(messageBuffer') <= Len(buf) - endIndex]_vars

\* ---- C24
\* C24: with log lines before, between and after the messages, once all the
\* output has been delivered every message has been handed to handleMessage,
\* in the order written.
LogLinesDoNotDisturb ==
  (component = "framer" /\ unread = <<>>) => handled = written

\* ---- C25
\* C25: a child started after another was stopped is framed as the first
\* one is: once all its output has been delivered, its messages have been
\* handed to handleMessage, whatever the child before it left in the buffer.
FreshFramerPerChild ==
  (component = "restart" /\ process.st = "running" /\ unread = <<>>) => handled = written

\* ---- C26
\* p is q with some of its elements left out: what is in p is in the order of q.
RECURSIVE IsSubSeq(_, _)
IsSubSeq(p, q) ==
  IF p = <<>> THEN TRUE
  ELSE IF q = <<>> THEN FALSE
  ELSE IF Head(p) = Head(q) THEN IsSubSeq(Tail(p), Tail(q))
  ELSE IsSubSeq(p, Tail(q))

\* C26: the messages are handed to handleMessage, which calls every
\* subscriber before it returns, in the order they were written to the
\* output: never a message before one written earlier, also when one data
\* event brings several of them.
DeliveredInArrivalOrder ==
  component = "framer" => IsSubSeq(handled, written)

\* Two different messages, both delivered.
TwoDeliveredInOrder ==
  /\ component = "framer"
  /\ Len(written) = 2
  /\ written[1] # written[2]
  /\ handled = written
  /\ unread = <<>>

\* ---- C27
\* The step leaves the connection and every request but r as they are.
OnlyRequest(r) ==
  /\ UNCHANGED <<ws, orphans, connected, reconnectAttempts, reconnectTimer,
                 reconnectPending, pingInterval, messageQueue>>
  /\ \A q \in Calls \ {r} :
       /\ call'[q] = call[q]
       /\ outcome'[q] = outcome[q]
       /\ timer'[q] = timer[q]
       /\ (q \in messageHandlers') = (q \in messageHandlers)

\* C27: the timeout of a request, and an error message that carries the id of
\* a request, change nothing but that request: this.ws and the sockets,
\* connected, the attempt counter, the reconnect timer, the ping interval,
\* the queue and the other requests stay as they are.
TimeoutAndErrorAreLocal ==
  [][/\ \A r \in Calls :
          (timer[r] /\ ~timer'[r] /\ RequestTimeout(r)) => OnlyRequest(r)
     /\ \A r \in Calls :
          received' = r =>
            \A t \in Targets(Cur) :
              SocketMessage(t, [type |-> "error", id |-> r, tools |-> NoTools])
                => OnlyRequest(r)]_vars

\* One request has timed out while another is waiting for its reply on an
\* open socket.
TimedOutBesidePending ==
  \E r, q \in Calls :
    /\ r # q
    /\ outcome[r] = <<[kind |-> "reject", val |-> "timeout"]>>
    /\ ~timer[r]
    /\ q \in messageHandlers
    /\ call[q] = "pending"
    /\ connected
    /\ ws.st = "open"
    /\ received = NoMsg

\* ---- C28
\* C28: this.tools changes only when a list_tools message that has tools
\* arrives, and then it becomes the tools of that message; the timeout of
\* listTools() and a reply of any other kind leave it as it is.
CatalogChangesOnRefreshOnly ==
  [][tools' # tools =>
       \E m \in Inbound :
         /\ m.type = "list_tools"
         /\ m.tools # NoTools
         /\ tools' = m.tools
         /\ \E t \in Targets(Cur) : SocketMessage(t, m)]_vars

\* ---- C29
\* C29: when a socket opens, the bridge sends a list_tools request on it,
\* whether or not its caller has asked for the tools.
CatalogRequestedOnOpen ==
  [][\A t \in Targets(Cur) :
       SocketOpen(t) => \E i \in 1..Len(sent') : sent'[i].type = "list_tools"]_vars

\* ---- C30
\* C30: the ping interval is set only while the bridge is connected, and a
\* tick of it puts nothing in the message queue and creates no socket.
PingOnlyWhileConnected ==
  [][/\ pingInterval' => connected'
     /\ PingTick =>
          /\ messageQueue' = messageQueue
          /\ ws' = ws
          /\ orphans' = orphans]_vars

\* ---- C31
\* C31: start() reports success only once the child held has sent its
\* initialize message: executeTool() and getAvailableTools(), which call
\* start() when the agent is not ready, register and send their request
\* only when it is.
StartTrueOnlyWhenReady ==
  [][\A r \in Calls :
       ((CallPExecuteTool(r) \/ CallGetAvailableTools(r)) /\ ~isReady)
         => pcall'[r] # "pending"]_vars

\* ---- C32
\* C32: a request is registered to wait for its reply only when its message
\* was written to a child: with no child held, sendPrompt(), executeTool()
\* and getAvailableTools() return at once and leave no callback behind.
NoWaiterWithoutChild ==
  [][\A r \in Calls :
       (pcall[r] # "pending" /\ pcall'[r] = "pending") =>
         process'.st # "null"]_vars

\* ---- C33
\* C33: sendPrompt() and executeTool() of OpenManusProcess never reject and
\* never stay unsettled on a failure: an error reply, a reply of another
\* type and the timeout each resolve the call with null, and so does a call
\* made with no child held that cannot start one.
FailuresResolveNull ==
  [][/\ \A r \in Calls, m \in PInbound :
          (m.id = r /\ r \in messageCallbacks /\ pop[r] \in {"prompt", "tool"}
             /\ m.type \notin {"prompt_response", "execute_tool_response"}) =>
            \A t \in PTargets(PCur) :
              ChildMessage(t, m) => poutcome'[r] = <<"null">>
     /\ \A r \in Calls :
          (r \in messageCallbacks /\ PTimeout(r)) => poutcome'[r] = <<"null">>]_vars

\* ---- C34
\* C34: stop() with no child held changes nothing; stop() with a child held
\* kills that child, once, and leaves no child held and isReady false; and
\* a stop() right after a stop() changes nothing.
StopIsIdempotent ==
  [][CallStop =>
       /\ process' = NoChild
       /\ process = NoChild => UNCHANGED processVars
       /\ process # NoChild =>
            /\ ~isReady'
            /\ children' = children (+) SetToBag({Child("killed")})
       /\ stop(PCur)' = PCur']_vars

\* No child is held and the agent is taken as not ready, after a stop() that
\* killed a child that was ready.
StoppedOnce ==
  /\ component = "process"
  /\ process = NoChild
  /\ ~isReady
  /\ onMessageListeners = <<>>
  /\ children = SetToBag({Child("killed")})

\* ---- C35
\* C35: while connected is true, this.ws is the socket that opened: it is not
\* null and not a socket that is still connecting or was terminated.
ConnectedHoldsOpenSocket == connected => ws.st \in {"open", "failing"}

\* ---- C36
\* C36: while isReady is true a child process is held.
ReadyImpliesChildHeld == isReady => process # NoChild

\* ---- C37
\* C37: a message the child writes is handed once to each listener that is
\* registered when it arrives, also when a listener removes itself while the
\* message is being handed out.
EachListenerCalledOnce ==
  [][\A t \in PTargets(PCur), m \in PInbound :
       ChildMessage(t, m) => notifyCalls(PCur, 1, m) = Len(onMessageListeners)]_vars

\* ---- C38
\* Request r was settled by its timeout.
TimedOut(r) ==
  /\ outcome[r] # <<>>
  /\ outcome[r][1].val \in {"timeout", EmptyTools}

\* C38: the message of a request that has timed out is not handed to a
\* socket any more: a socket that opens later does not transmit it.
TimedOutNeverTransmitted ==
  [][\A r \in Calls :
       TimedOut(r) => \A i \in 1..Len(sent') : sent'[i].id # r]_vars

\* ---- C39
\* What processOutput would hand over if it were called again and again with
\* no new output, until it changes nothing.
RECURSIVE drain(_)
drain(F) ==
  LET G == processOutput(F, <<>>)
  IN IF G = F THEN F ELSE drain(G)

\* C39: when a data event has been handled, every message that is complete
\* in the output received so far has been handed to handleMessage: none is
\* left in the buffer to wait for the next data event, also behind a frame
\* that did not parse.
NothingLeftForNextChunk ==
  [][\A n \in 1..Len(unread) :
       ChildData(n) =>
         drain([messageBuffer |-> messageBuffer', handled |-> handled']).handled
           = handled']_vars

====
